---------------------------- MODULE Spec2Model ----------------------------
(***************************************************************************)
(* A model of src/main.rs of the mandelbrot renderer: the coordinate       *)
(* mapper pixel_to_point, the classifier escape_time, the loop of render   *)
(* and the helper parse_pair.                                              *)
(*                                                                         *)
(* Numbers keep their machine nature at a reduced width.  An f64 is a      *)
(* binary floating-point number with FloatDigits significant bits, the     *)
(* exponent range [2 - FloatMaxExp, FloatMaxExp], gradual underflow,       *)
(* rounding to nearest with ties to even, two infinities and NaN (IEEE     *)
(* 754 with the widths of binary16 in place of those of binary64).  A      *)
(* usize is an unsigned integer of UsizeBits bits.  The sign of zero is    *)
(* not kept: no operation of the program divides by a zero that carries a  *)
(* sign, and == does not tell the two zeros apart.                         *)
(***************************************************************************)
EXTENDS Integers, Sequences, FiniteSets, TLC

\* ------------------------------------------------------------------------
\* Widths of the machine numbers (reduced; see the header).
FloatDigits == 11
FloatMaxExp == 15
UsizeBits == 12

Pow2(n) == 2 ^ n

Max2(a, b) == IF a >= b THEN a ELSE b

Abs(n) == IF n < 0 THEN 0 - n ELSE n

Sgn(n) == IF n < 0 THEN 0 - 1 ELSE 1

\* The exponent of the lowest bit of the subnormal numbers, and of the
\* numbers of the highest binade.
QMin == (2 - FloatMaxExp) - FloatDigits
QMax == (FloatMaxExp + 1) - FloatDigits

RECURSIVE BitLen(_)
BitLen(a) == IF a = 0 THEN 0 ELSE 1 + BitLen(a \div 2)

\* ------------------------------------------------------------------------
\* f64 values.  A finite value is m * 2^e with |m| < 2^FloatDigits, in the
\* one form where |m| >= 2^(FloatDigits-1) or e = QMin.
Fin(m, e) == [k |-> "fin", m |-> m, e |-> e]
Inf(s) == [k |-> "inf", m |-> s, e |-> 0]
NaN == [k |-> "nan", m |-> 0, e |-> 0]
Zero == Fin(0, QMin)

IsFinite(x) == x.k = "fin"

\* The f64 nearest to s * a * 2^E (a >= 0), ties to even; overflow gives
\* the infinity of sign s.
RoundFin(s, a, E) ==
    IF a = 0 THEN Zero
    ELSE LET L == BitLen(a)
             q == Max2(E + L - FloatDigits, QMin)
         IN  IF q <= E
             THEN IF q > QMax THEN Inf(s) ELSE Fin(s * a * Pow2(E - q), q)
             ELSE LET sh == q - E
                  IN  IF sh > L + 1 THEN Zero
                      ELSE LET quo == a \div Pow2(sh)
                               rem == a % Pow2(sh)
                               half == Pow2(sh - 1)
                               up == rem > half \/ (rem = half /\ quo % 2 = 1)
                               m1 == IF up THEN quo + 1 ELSE quo
                               carry == m1 = Pow2(FloatDigits)
                               m2 == IF carry THEN Pow2(FloatDigits - 1) ELSE m1
                               q2 == IF carry THEN q + 1 ELSE q
                           IN  IF m2 = 0 THEN Zero
                               ELSE IF q2 > QMax THEN Inf(s)
                               ELSE Fin(s * m2, q2)

\* The f64 nearest to the rational m * 2^e: how a decimal literal or a
\* parsed number becomes a value.
FloatOf(m, e) == RoundFin(Sgn(m), Abs(m), e)

FNeg(x) == IF x.k = "nan" THEN NaN ELSE [x EXCEPT !.m = 0 - x.m]

FAdd(x, y) ==
    CASE x.k = "nan" \/ y.k = "nan" -> NaN
      [] x.k = "inf" /\ y.k = "inf" -> IF x.m = y.m THEN x ELSE NaN
      [] x.k = "inf" -> x
      [] y.k = "inf" -> y
      [] x.m = 0 -> y
      [] y.m = 0 -> x
      [] OTHER ->
           LET big == IF x.e >= y.e THEN x ELSE y
               small == IF x.e >= y.e THEN y ELSE x
               d == big.e - small.e
               \* A term below an eighth of the last place only says on
               \* which side of big the sum lies.
               M == IF d > FloatDigits + 2
                    THEN 8 * big.m + Sgn(small.m)
                    ELSE big.m * Pow2(d) + small.m
               E == IF d > FloatDigits + 2 THEN big.e - 3 ELSE small.e
           IN  RoundFin(Sgn(M), Abs(M), E)

FSub(x, y) == FAdd(x, FNeg(y))

FMul(x, y) ==
    CASE x.k = "nan" \/ y.k = "nan" -> NaN
      [] x.k = "inf" \/ y.k = "inf" ->
           IF x.m = 0 \/ y.m = 0 THEN NaN ELSE Inf(Sgn(x.m) * Sgn(y.m))
      [] OTHER -> RoundFin(Sgn(x.m) * Sgn(y.m), Abs(x.m) * Abs(y.m), x.e + y.e)

FDiv(x, y) ==
    CASE x.k = "nan" \/ y.k = "nan" -> NaN
      [] x.k = "inf" /\ y.k = "inf" -> NaN
      [] x.k = "inf" -> Inf(Sgn(x.m) * Sgn(y.m))
      [] y.k = "inf" -> Zero
      [] y.m = 0 -> IF x.m = 0 THEN NaN ELSE Inf(Sgn(x.m))
      [] x.m = 0 -> Zero
      [] OTHER ->
           LET s1 == FloatDigits - BitLen(Abs(x.m))
               s2 == FloatDigits - BitLen(Abs(y.m))
               a1 == Abs(x.m) * Pow2(s1)
               a2 == Abs(y.m) * Pow2(s2)
               num == a1 * Pow2(FloatDigits + 2)
               quo == num \div a2
               sticky == IF num % a2 = 0 THEN 0 ELSE 1
           IN  RoundFin(Sgn(x.m) * Sgn(y.m), 2 * quo + sticky,
                        ((x.e - s1) - (y.e - s2)) - (FloatDigits + 3))

\* x > y and x == y of f64: false as soon as one side is NaN.
FGt(x, y) ==
    LET d == FSub(x, y) IN d.k # "nan" /\ d.m > 0

FEq(x, y) == x.k # "nan" /\ y.k # "nan" /\ x = y

\* ------------------------------------------------------------------------
\* Complex<f64> of the num crate: the operations the program uses.
Complex(re, im) == [re |-> re, im |-> im]

CAdd(a, b) == Complex(FAdd(a.re, b.re), FAdd(a.im, b.im))

CMul(a, b) ==
    Complex(FSub(FMul(a.re, b.re), FMul(a.im, b.im)),
            FAdd(FMul(a.re, b.im), FMul(a.im, b.re)))

norm_sqr(z) == FAdd(FMul(z.re, z.re), FMul(z.im, z.im))

\* Option<T>: None is the empty sequence, Some(v) the sequence of v.
None == << >>
Some(v) == << v >>

\* ------------------------------------------------------------------------
\* usize arithmetic.  A build with overflow checks panics on overflow, one
\* without wraps; which one is built is not fixed by the source.
UsizeMod == Pow2(UsizeBits)

Overflows(n) == n >= UsizeMod

Wrap(n) == n % UsizeMod

\* n as f64: the nearest f64.
UsizeAsF64(n) == RoundFin(1, n, 0)

\* n as u8: the low eight bits.
AsU8(n) == n % 256

\* ------------------------------------------------------------------------
\* escape_time

\* Variants of the comparison: >= in place of >, and < in place of >.
EscapeTestInclusive(z) ==
    FGt(norm_sqr(z), FloatOf(4, 0)) \/ FEq(norm_sqr(z), FloatOf(4, 0))

EscapeTestInverted(z) == FGt(FloatOf(4, 0), norm_sqr(z))

\* The comparison of the loop: z.norm_sqr() > 4.0.
EscapeTest(z) == FGt(norm_sqr(z), FloatOf(4, 0))

\* Variant: the accumulator starts at c.
EscapeStartAtC(c) == c

\* The accumulator before the first iteration.
EscapeStart(c) == Complex(Zero, Zero)

\* Variant of the iteration: the update comes before the test.
EscapeStepUpdateFirst(c, st) ==
    LET z2 == CAdd(CMul(st.z, st.z), c)
    IN  IF FGt(norm_sqr(z2), FloatOf(4, 0))
        THEN [st EXCEPT !.returned = TRUE, !.ret = Some(st.i)]
        ELSE [i |-> st.i + 1, z |-> z2, returned |-> FALSE, ret |-> None]

\* One iteration of `for i in 0..limit`, from the loop state st: the
\* counter i, the accumulator z, and ret, the value returned so far (None
\* while the loop runs on).
EscapeStep(c, st) ==
    IF EscapeTest(st.z)
    THEN [st EXCEPT !.returned = TRUE, !.ret = Some(st.i)]
    ELSE [i |-> st.i + 1, z |-> CAdd(CMul(st.z, st.z), c),
          returned |-> FALSE, ret |-> None]

\* n iterations from st, stopping at the return.  (The iterations are run
\* as two halves so that the evaluation's depth stays logarithmic.)
RECURSIVE EscapeIter(_, _, _)
EscapeIter(c, st, n) ==
    IF st.returned \/ n = 0 THEN st
    ELSE IF n = 1 THEN EscapeStep(c, st)
    ELSE EscapeIter(c, EscapeIter(c, st, n \div 2), n - (n \div 2))

escape_time(c, limit) ==
    EscapeIter(c, [i |-> 0, z |-> EscapeStart(c), returned |-> FALSE, ret |-> None],
               limit).ret

\* ------------------------------------------------------------------------
\* Variant of pixel_to_point: the last pixel lands on lower_right (the
\* divisors are bounds - 1).
pixel_to_point_inclusive(bnds, pixel, ul, lr) ==
    LET width == FSub(lr.re, ul.re)
        height == FSub(ul.im, lr.im)
    IN  [re |-> FAdd(ul.re, FDiv(FMul(RoundFin(1, pixel[1], 0), width),
                                 RoundFin(1, bnds[1] - 1, 0))),
         im |-> FSub(ul.im, FDiv(FMul(RoundFin(1, pixel[2], 0), height),
                                 RoundFin(1, bnds[2] - 1, 0)))]

\* ------------------------------------------------------------------------
\* pixel_to_point.  bounds and pixel are pairs <<.0, .1>>.
pixel_to_point(bnds, pixel, ul, lr) ==
    LET width == FSub(lr.re, ul.re)
        height == FSub(ul.im, lr.im)
    IN  Complex(
          FAdd(ul.re, FDiv(FMul(UsizeAsF64(pixel[1]), width), UsizeAsF64(bnds[1]))),
          FSub(ul.im, FDiv(FMul(UsizeAsF64(pixel[2]), height), UsizeAsF64(bnds[2]))))

\* ------------------------------------------------------------------------
\* The state.  pc is the place of the one thread of control.  The other
\* variables carry the names of the parameters and locals of the function
\* that runs: render(pixels, bounds, upper_left, lower_right) with its loop
\* variables row and column, escape_time(c, limit),
\* pixel_to_point(bounds, pixel, upper_left, lower_right) and
\* parse_pair(s, separator).  ret is the value a function returned.
\* overflow_checks tells whether the build checks integer overflow.
\* pixels0 (the buffer as render received it), written (how often each
\* index was stored to) and visited (the pixels whose body has run) are
\* history variables.
VARIABLES pc, overflow_checks, pixels, pixels0, written, visited,
          bounds, upper_left, lower_right, row, column,
          c, limit, pixel, s, separator, ret

vars == << pc, overflow_checks, pixels, pixels0, written, visited,
           bounds, upper_left, lower_right, row, column,
           c, limit, pixel, s, separator, ret >>

\* ------------------------------------------------------------------------
\* Bounds of the model and the inputs drawn within them.
MaxPixels == 4
MaxLimit == 6
MaxText == 4

\* The iteration limit render passes to escape_time.
RenderLimit == 255

\* Image dimensions: small ones, and two whose products with a small one
\* do not fit a usize.
BoundVals == {0, 1, 2, 3, UsizeMod \div 2, (UsizeMod \div 2) + 1}

\* What the buffer holds when render receives it.
FillBytes == {0, 255}

\* The largest finite f64.
FloatMax == Fin(Pow2(FloatDigits) - 1, QMax)

Viewports ==
    { << Complex(FloatOf(-2, 0), FloatOf(1, 0)), Complex(FloatOf(1, 0), FloatOf(-1, 0)) >>,
      << Complex(FloatOf(-1, 0), FloatOf(1, 0)), Complex(FloatOf(1, 0), FloatOf(-1, 0)) >>,
      << Complex(FloatOf(3, -2), FloatOf(-1, -2)), Complex(FloatOf(-5, -2), FloatOf(1, -2)) >>,
      << Complex(FNeg(FloatMax), FloatOf(1, 0)), Complex(FloatMax, FloatOf(-1, 0)) >> }

\* The variables a specification does not use.
IdleRender ==
    /\ overflow_checks = FALSE /\ pixels = << >> /\ pixels0 = << >>
    /\ written = << >> /\ visited = {} /\ row = 0 /\ column = 0

IdleEscape == c = Complex(Zero, Zero) /\ limit = 0

IdleMap == pixel = << 0, 0 >>

IdleParse == s = << >> /\ separator = ","

\* ------------------------------------------------------------------------
\* render

\* Variant of the byte: the count, not inverted.
RenderByteNotInverted(bnds, col, rw, ul, lr) ==
    LET r == escape_time(pixel_to_point(bnds, << col, rw >>, ul, lr), RenderLimit)
    IN  IF r = None THEN 0 ELSE AsU8(r[1])

\* The byte of one pixel: the point, its classification, the match.
RenderByte(bnds, col, rw, ul, lr) ==
    LET point == pixel_to_point(bnds, << col, rw >>, ul, lr)
        r == escape_time(point, RenderLimit)
    IN  IF r = None THEN 0 ELSE 255 - AsU8(r[1])

\* Variants of the index: the rows spaced by the height, and the sum of
\* row and column.
PixelIndexByHeight(bnds, col, rw) == rw * bnds[2] + col

PixelIndexSum(bnds, col, rw) == rw + col

\* row * bounds.0 + column, before it is reduced to a usize.
PixelIndex(bnds, col, rw) == rw * bnds[1] + col

\* The position of the loops after the body at (col, rw).
NextPixel(bnds, col, rw) ==
    IF col + 1 < bnds[1] THEN << col + 1, rw >> ELSE << 0, rw + 1 >>

InitRender ==
    /\ pc = "render"
    /\ overflow_checks \in BOOLEAN
    /\ bounds \in BoundVals \X BoundVals
    /\ \E n \in 0..MaxPixels, fill \in FillBytes : pixels = [i \in 1..n |-> fill]
    /\ pixels0 = pixels
    /\ written = [i \in 1..Len(pixels) |-> 0]
    /\ visited = {}
    /\ \E v \in Viewports : upper_left = v[1] /\ lower_right = v[2]
    /\ row = 0 /\ column = 0
    /\ IdleEscape /\ IdleMap /\ IdleParse /\ ret = None

\* assert_eq!(pixels.len(), bounds.0 * bounds.1)
RenderAssert ==
    /\ pc = "render"
    /\ pc' = IF Overflows(bounds[1] * bounds[2]) /\ overflow_checks
             THEN "panic_overflow"
             ELSE IF Len(pixels) # Wrap(bounds[1] * bounds[2])
             THEN "panic_assert"
             ELSE "loop"
    /\ UNCHANGED << overflow_checks, pixels, pixels0, written, visited, bounds,
                    upper_left, lower_right, row, column, c, limit, pixel, s,
                    separator, ret >>

\* The body of the loops for the pixel (col, rw): the index, its bounds
\* check, the store.  The point and the byte are computed before the index.
Body(col, rw) ==
    LET idx == PixelIndex(bounds, col, rw)
        byte == RenderByte(bounds, col, rw, upper_left, lower_right)
    IN  IF Overflows(idx) /\ overflow_checks
        THEN pc' = "panic_overflow" /\ UNCHANGED << pixels, written >>
        ELSE IF Wrap(idx) >= Len(pixels)
        THEN pc' = "panic_index" /\ UNCHANGED << pixels, written >>
        ELSE /\ pc' = pc
             /\ pixels' = [pixels EXCEPT ![Wrap(idx) + 1] = byte]
             /\ written' = [written EXCEPT ![Wrap(idx) + 1] = @ + 1]

\* One iteration of the inner loop, at (column, row).
RenderPixel ==
    /\ pc = "loop"
    /\ row < bounds[2] /\ bounds[1] > 0
    /\ Body(column, row)
    /\ visited' = visited \cup {<< column, row >>}
    /\ column' = NextPixel(bounds, column, row)[1]
    /\ row' = NextPixel(bounds, column, row)[2]
    /\ UNCHANGED << overflow_checks, pixels0, bounds, upper_left, lower_right,
                    c, limit, pixel, s, separator, ret >>

\* The loops are over (rows without columns are passed at once).
RenderReturn ==
    /\ pc = "loop"
    /\ ~(row < bounds[2] /\ bounds[1] > 0)
    /\ pc' = "done"
    /\ UNCHANGED << overflow_checks, pixels, pixels0, written, visited, bounds,
                    upper_left, lower_right, row, column, c, limit, pixel, s,
                    separator, ret >>

Next == RenderAssert \/ RenderPixel \/ RenderReturn

Spec == InitRender /\ [][Next]_vars

\* ------------------------------------------------------------------------
\* The loops of render with the pixels visited in an arbitrary order: the
\* schedule of any partition of the pixels among workers that interleave.

\* The sequential loops as a function of the buffer: the bodies of the
\* pixels k, k + 1, ... in row-major order (k = row * bounds.0 + column),
\* without the checks, for a buffer of bounds.0 * bounds.1 elements.
RECURSIVE SequentialFrom(_, _, _, _, _)
SequentialFrom(buf, bnds, ul, lr, k) ==
    IF k >= bnds[1] * bnds[2] THEN buf
    ELSE LET col == k % bnds[1]
             rw == k \div bnds[1]
         IN  SequentialFrom(
               [buf EXCEPT ![PixelIndex(bnds, col, rw) + 1] = RenderByte(bnds, col, rw, ul, lr)],
               bnds, ul, lr, k + 1)

InitAnyOrder ==
    /\ InitRender
    /\ Len(pixels) = bounds[1] * bounds[2]

\* The body for any pixel not yet visited; column and row are the loop
\* variables of the worker that runs it.
VisitAny ==
    /\ pc = "loop"
    /\ \E col \in 0..(bounds[1] - 1), rw \in 0..(bounds[2] - 1) :
         /\ << col, rw >> \notin visited
         /\ Body(col, rw)
         /\ visited' = visited \cup {<< col, rw >>}
         /\ column' = col /\ row' = rw
    /\ UNCHANGED << overflow_checks, pixels0, bounds, upper_left, lower_right,
                    c, limit, pixel, s, separator, ret >>

AnyOrderReturn ==
    /\ pc = "loop"
    /\ visited = (0..(bounds[1] - 1)) \X (0..(bounds[2] - 1))
    /\ pc' = "done"
    /\ UNCHANGED << overflow_checks, pixels, pixels0, written, visited, bounds,
                    upper_left, lower_right, row, column, c, limit, pixel, s,
                    separator, ret >>

NextAnyOrder == RenderAssert \/ VisitAny \/ AnyOrderReturn

SpecAnyOrder == InitAnyOrder /\ [][NextAnyOrder]_vars

\* ------------------------------------------------------------------------
\* escape_time called on its own.
EscapeCoords ==
    { FloatOf(-2, 0), FloatOf(-1, 0), FloatOf(-3, -2), Zero, FloatOf(1, -2),
      FloatOf(33, -7), FloatOf(1, 0), FloatOf(5, 0), FloatMax, Inf(1), NaN }

InitEscape ==
    /\ pc = "escape_time"
    /\ \E re \in EscapeCoords, im \in EscapeCoords : c = Complex(re, im)
    /\ limit \in 0..MaxLimit
    /\ ret = None
    /\ bounds = << 0, 0 >>
    /\ upper_left = Complex(Zero, Zero) /\ lower_right = Complex(Zero, Zero)
    /\ IdleRender /\ IdleMap /\ IdleParse

EscapeTimeCall ==
    /\ pc = "escape_time"
    /\ pc' = "escape_time_ret"
    /\ ret' = escape_time(c, limit)
    /\ UNCHANGED << overflow_checks, pixels, pixels0, written, visited, bounds,
                    upper_left, lower_right, row, column, c, limit, pixel, s,
                    separator >>

NextEscape == EscapeTimeCall

SpecEscape == InitEscape /\ [][NextEscape]_vars

\* ------------------------------------------------------------------------
\* pixel_to_point called on its own.
MapCoords ==
    { FNeg(FloatMax), FloatOf(-1, 0), FloatOf(1, -2), FloatOf(1, 0), FloatMax }

MapBounds == { << 1, 1 >>, << 3, 2 >>, << 100, 200 >>, << UsizeMod - 1, 3 >> }

MapPixels == { << 0, 0 >>, << 2, 1 >>, << 25, 175 >>, << UsizeMod - 3, 2 >> }

InitMap ==
    /\ pc = "pixel_to_point"
    /\ bounds \in MapBounds
    /\ pixel \in MapPixels
    /\ pixel[1] < bounds[1] /\ pixel[2] < bounds[2]
    /\ \E a \in MapCoords, b \in MapCoords : upper_left = Complex(a, b)
    /\ \E a \in MapCoords, b \in MapCoords : lower_right = Complex(a, b)
    /\ ret = None
    /\ IdleRender /\ IdleEscape /\ IdleParse

PixelToPointCall ==
    /\ pc = "pixel_to_point"
    /\ pc' = "pixel_to_point_ret"
    /\ ret' = pixel_to_point(bounds, pixel, upper_left, lower_right)
    /\ UNCHANGED << overflow_checks, pixels, pixels0, written, visited, bounds,
                    upper_left, lower_right, row, column, c, limit, pixel, s,
                    separator >>

NextMap == PixelToPointCall

SpecMap == InitMap /\ [][NextMap]_vars

\* ------------------------------------------------------------------------
\* parse_pair, with T = i32.  A &str is a sequence of characters.
Chars == { "0", "1", "-", ",", "x" }

Separators == { ",", "x", "-" }

RECURSIVE Texts(_)
Texts(n) ==
    IF n = 0 THEN { << >> }
    ELSE LET shorter == Texts(n - 1)
         IN  shorter \cup { Append(t, ch) : t \in { u \in shorter : Len(u) = n - 1 }, ch \in Chars }

\* Result<T, E>: Err is the empty sequence, Ok(v) the sequence of v.
Err == << >>
Ok(v) == << v >>

IsDigit(ch) == ch \in { "0", "1" }

DigitVal(ch) == IF ch = "1" THEN 1 ELSE 0

\* The number a sequence of digits writes in base ten.
RECURSIVE DigitsVal(_)
DigitsVal(t) ==
    IF t = << >> THEN 0
    ELSE 10 * DigitsVal(SubSeq(t, 1, Len(t) - 1)) + DigitVal(t[Len(t)])

\* i32::from_str: an optional sign, then one digit or more, and nothing
\* else.  (Texts of at most MaxText + 1 characters stay within an i32.)
FromStr(t) ==
    LET signed == t # << >> /\ t[1] = "-"
        digits == IF signed THEN SubSeq(t, 2, Len(t)) ELSE t
    IN  IF digits = << >> \/ \E i \in 1..Len(digits) : ~IsDigit(digits[i])
        THEN Err
        ELSE Ok(IF signed THEN 0 - DigitsVal(digits) ELSE DigitsVal(digits))

\* Variant of the search: the last occurrence.
FindLast(t, ch) ==
    IF \E i \in 1..Len(t) : t[i] = ch
    THEN << (CHOOSE i \in 1..Len(t) : t[i] = ch /\ \A j \in (i + 1)..Len(t) : t[j] # ch) - 1 >>
    ELSE << >>

\* s.find(separator): the byte index of the first occurrence.
Find(t, ch) ==
    IF \E i \in 1..Len(t) : t[i] = ch
    THEN Some((CHOOSE i \in 1..Len(t) : t[i] = ch /\ \A j \in 1..(i - 1) : t[j] # ch) - 1)
    ELSE None

parse_pair(t, sep) ==
    LET found == Find(t, sep)
    IN  IF found = None THEN None
        ELSE LET index == found[1]
                 l == FromStr(SubSeq(t, 1, index))
                 r == FromStr(SubSeq(t, index + 2, Len(t)))
             IN  IF l # Err /\ r # Err THEN Some(<< l[1], r[1] >>) ELSE None

InitParse ==
    /\ pc = "parse_pair"
    /\ s \in Texts(MaxText)
    /\ separator \in Separators
    /\ ret = None
    /\ bounds = << 0, 0 >>
    /\ upper_left = Complex(Zero, Zero) /\ lower_right = Complex(Zero, Zero)
    /\ IdleRender /\ IdleEscape /\ IdleMap

ParsePairCall ==
    /\ pc = "parse_pair"
    /\ pc' = "parse_pair_ret"
    /\ ret' = parse_pair(s, separator)
    /\ UNCHANGED << overflow_checks, pixels, pixels0, written, visited, bounds,
                    upper_left, lower_right, row, column, c, limit, pixel, s,
                    separator >>

NextParse == ParsePairCall

SpecParse == InitParse /\ [][NextParse]_vars

\* ------------------------------------------------------------------------
\* Properties of render (specification Spec).

\* The buffer has as many elements as the image has pixels.
Matched == Len(pixels0) = bounds[1] * bounds[2]

Panicked == pc \in { "panic_overflow", "panic_assert", "panic_index" }

\* What the classifier reports for the pixel (col, rw) of the image.
Classified(col, rw) ==
    escape_time(pixel_to_point(bounds, << col, rw >>, upper_left, lower_right), 255)

\* C1: called with a buffer of bounds.0 * bounds.1 elements, render does
\* not fail, stores to no index more than once, keeps the buffer's length,
\* and has stored to every index of the buffer exactly once when it returns
\* (the buffer has no other index to store to).
C1_EveryIndexWrittenOnce ==
    Matched =>
      /\ ~Panicked
      /\ Len(pixels) = Len(pixels0)
      /\ DOMAIN written = 1..(bounds[1] * bounds[2])
      /\ \A i \in DOMAIN written : written[i] <= 1
      /\ pc = "done" => \A i \in 1..(bounds[1] * bounds[2]) : written[i] = 1

C1_Witness ==
    /\ pc = "done" /\ Matched
    /\ Len(pixels) = 4
    /\ pixels0[1] = 255
    /\ \A i \in 1..4 : written[i] = 1 /\ pixels[i] # 255

\* C2: after render, the byte at row * width + column is 0 when the
\* classifier reports no escape for the pixel's point and 255 - count when
\* it reports an escape after count iterations; count is below 256, so its
\* conversion to a byte keeps it and the subtraction does not wrap.
C2_ByteIsInvertedCount ==
    pc = "done" =>
      \A rw \in 0..(bounds[2] - 1), col \in 0..(bounds[1] - 1) :
        LET r == Classified(col, rw)
            byte == pixels[rw * bounds[1] + col + 1]
        IN  IF r = None
            THEN byte = 0
            ELSE r[1] \in 0..255 /\ byte = 255 - r[1]

C2_Witness ==
    /\ pc = "done" /\ Matched
    /\ pixels0 = << 255, 255, 255, 255 >>
    /\ \E i, j \in 1..4 : pixels[i] = 0 /\ pixels[j] \in 1..252

\* C3: called with a buffer whose length is not bounds.0 * bounds.1, render
\* fails before it stores to any element: no element is stored to, and
\* render does not return.  (Any panic counts as the failure here.)
C3_MismatchFailsBeforeAnyWrite ==
    ~Matched =>
      /\ \A i \in DOMAIN written : written[i] = 0
      /\ pc # "done"

\* C10: after render a byte is 0 exactly when its pixel's point did not
\* escape within 255 iterations; an escaped pixel has a count from 1 to 254
\* and a byte from 1 to 254; the byte 255 is not in the buffer.
C10_ZeroIffNoEscape ==
    pc = "done" =>
      \A rw \in 0..(bounds[2] - 1), col \in 0..(bounds[1] - 1) :
        LET r == Classified(col, rw)
            byte == pixels[rw * bounds[1] + col + 1]
        IN  /\ byte = 0 <=> r = None
            /\ r # None => r[1] \in 1..254 /\ byte \in 1..254
            /\ byte # 255

C10_Witness ==
    /\ pc = "done" /\ Matched
    /\ pixels0 = << 255, 255, 255, 255 >>
    /\ \E i, j \in 1..4 : pixels[i] = 254 /\ pixels[j] = 0

\* ------------------------------------------------------------------------
\* Properties of the loops in any order (specification SpecAnyOrder).

\* C9: whatever the order in which the pixels are visited, each visit
\* stores to the index of its pixel and to no other, and the buffer at the
\* end is the one the sequential row-major loops produce.
C9_OrderNotObservable ==
    /\ pc \in { "loop", "done" } =>
         \A rw \in 0..(bounds[2] - 1), col \in 0..(bounds[1] - 1) :
           LET i == rw * bounds[1] + col + 1
           IN  IF << col, rw >> \in visited
               THEN written[i] = 1
               ELSE written[i] = 0 /\ pixels[i] = pixels0[i]
    /\ pc = "done" =>
         pixels = SequentialFrom(pixels0, bounds, upper_left, lower_right, 0)

\* The four pixels have been visited, (0, 0) last: not the row-major order.
C9_Witness ==
    /\ pc = "done"
    /\ bounds = << 2, 2 >>
    /\ << column, row >> = << 0, 0 >>
    /\ pixels0[1] = 255
    /\ \E i, j \in 1..4 : pixels[i] # pixels[j]

\* ------------------------------------------------------------------------
\* Properties of escape_time (specification SpecEscape).

\* The sequence z_0 = 0, z_(k+1) = z_k^2 + point.
RECURSIVE ZSeq(_, _)
ZSeq(point, k) ==
    IF k = 0 THEN Complex(Zero, Zero)
    ELSE LET z == ZSeq(point, k - 1) IN CAdd(CMul(z, z), point)

\* The indices below lim at which the sequence is outside the disk.
Outside(point, lim) ==
    { i \in 0..(lim - 1) : FGt(norm_sqr(ZSeq(point, i)), FloatOf(4, 0)) }

Least(S) == CHOOSE i \in S : \A j \in S : i <= j

Origin == Complex(Zero, Zero)

FarPoint == Complex(FloatOf(5, 0), FloatOf(5, 0))

\* C4: escape_time reports the least i < limit with |z_i|^2 > 4, a number
\* of [0, limit), and no escape exactly when there is no such i.
C4_LeastEscapeIndex ==
    pc = "escape_time_ret" =>
      LET out == Outside(c, limit)
      IN  /\ ret = IF out = {} THEN None ELSE Some(Least(out))
          /\ ret # None => ret[1] \in 0..(limit - 1)
          /\ ret = None <=> out = {}

C4_Witness ==
    /\ pc = "escape_time_ret"
    /\ c = Complex(FloatOf(1, -2), FloatOf(1, 0))
    /\ limit = MaxLimit
    /\ ret # None /\ ret[1] >= 3

\* C5 as claimed: for every positive limit, escape_time((5, 5), limit)
\* reports an escape with count 0.
C5_FarPointEscapesAtZero ==
    pc = "escape_time_ret" /\ c = FarPoint /\ limit >= 1 => ret = Some(0)

\* C5 as amended: escape_time((5, 5), limit) reports an escape with count 1
\* for every limit of 2 or more, and no escape for the limit 1 (iteration 0
\* tests z = 0, which is inside the disk).
C5_FarPointEscapesAtOne ==
    pc = "escape_time_ret" /\ c = FarPoint /\ limit >= 1 =>
      ret = IF limit = 1 THEN None ELSE Some(1)

C5_Witness ==
    pc = "escape_time_ret" /\ c = FarPoint /\ limit = MaxLimit /\ ret = Some(1)

\* C6: for every positive limit escape_time((0, 0), limit) reports no
\* escape, and the accumulator is 0 at every iteration.
C6_OriginNeverEscapes ==
    pc = "escape_time_ret" /\ c = Origin /\ limit >= 1 =>
      /\ ret = None
      /\ \A k \in 0..limit : ZSeq(Origin, k) = Origin

C6_Witness ==
    pc = "escape_time_ret" /\ c = Origin /\ limit = MaxLimit /\ ret = None

\* ------------------------------------------------------------------------
\* Properties of pixel_to_point (specification SpecMap).

NonDegenerate ==
    ~FEq(lower_right.re, upper_left.re) /\ ~FEq(upper_left.im, lower_right.im)

\* The extents of the viewport are finite numbers.
FiniteExtents ==
    /\ IsFinite(FSub(lower_right.re, upper_left.re))
    /\ IsFinite(FSub(upper_left.im, lower_right.im))

\* The point of the formula, in f64 arithmetic, the operations in the order
\* written.
FormulaPoint ==
    Complex(
      FAdd(upper_left.re,
           FDiv(FMul(UsizeAsF64(pixel[1]), FSub(lower_right.re, upper_left.re)),
                UsizeAsF64(bounds[1]))),
      FSub(upper_left.im,
           FDiv(FMul(UsizeAsF64(pixel[2]), FSub(upper_left.im, lower_right.im)),
                UsizeAsF64(bounds[2]))))

IsWorkedExample ==
    /\ bounds = << 100, 200 >> /\ pixel = << 25, 175 >>
    /\ upper_left = Complex(FloatOf(-1, 0), FloatOf(1, 0))
    /\ lower_right = Complex(FloatOf(1, 0), FloatOf(-1, 0))

PointEq(a, b) == FEq(a.re, b.re) /\ FEq(a.im, b.im)

\* C7 as claimed: for every non-degenerate viewport the result is the point
\* of the formula, the pixel (0, 0) maps exactly to upper_left, and the
\* worked example gives (-0.5, -0.75).
C7_MapsOriginToUpperLeft ==
    pc = "pixel_to_point_ret" /\ NonDegenerate =>
      /\ ret = FormulaPoint
      /\ pixel = << 0, 0 >> => PointEq(ret, upper_left)
      /\ IsWorkedExample => PointEq(ret, Complex(FloatOf(-1, -1), FloatOf(-3, -2)))

\* C7 as amended: the pixel (0, 0) maps exactly to upper_left when the
\* extents lower_right.re - upper_left.re and upper_left.im - lower_right.im
\* are finite; the rest as claimed.
C7_MapsOriginToUpperLeftWhenFinite ==
    pc = "pixel_to_point_ret" /\ NonDegenerate =>
      /\ ret = FormulaPoint
      /\ pixel = << 0, 0 >> /\ FiniteExtents => PointEq(ret, upper_left)
      /\ IsWorkedExample => PointEq(ret, Complex(FloatOf(-1, -1), FloatOf(-3, -2)))

C7_Witness ==
    /\ pc = "pixel_to_point_ret" /\ NonDegenerate /\ FiniteExtents
    /\ pixel = << 0, 0 >> /\ bounds = << 100, 200 >>
    /\ upper_left = Complex(FloatOf(1, -2), FloatOf(1, 0))
    /\ PointEq(ret, upper_left)

\* ------------------------------------------------------------------------
\* Properties of parse_pair (specification SpecParse).

\* The text splits at position i: the first occurrence of the separator.
FirstAt(i) == s[i] = separator /\ \A j \in 1..(i - 1) : s[j] # separator

LeftOf(i) == SubSeq(s, 1, i - 1)

RightOf(i) == SubSeq(s, i + 1, Len(s))

Contains(t, ch) == \E i \in 1..Len(t) : t[i] = ch

\* A character no number holds.
Garbage(t) == \E i \in 1..Len(t) : t[i] \notin { "0", "1", "-" }

\* Both halves of the split at i parse completely.
Parses(i) == FromStr(LeftOf(i)) # Err /\ FromStr(RightOf(i)) # Err

\* parse_pair returns (l, r) exactly when the text holds the separator and
\* the halves around its first occurrence parse completely to l and r.
PairIffHalvesParse ==
    /\ \A i \in 1..Len(s) :
         FirstAt(i) /\ Parses(i) =>
           ret = Some(<< FromStr(LeftOf(i))[1], FromStr(RightOf(i))[1] >>)
    /\ ~(\E i \in 1..Len(s) : FirstAt(i) /\ Parses(i)) => ret = None

\* Nothing is returned when the separator is absent, when a half is empty,
\* when a half holds garbage.
NothingOnBadHalf ==
    /\ ~Contains(s, separator) => ret = None
    /\ \A i \in 1..Len(s) :
         FirstAt(i) /\ (LeftOf(i) = << >> \/ RightOf(i) = << >>) => ret = None
    /\ \A i \in 1..Len(s) :
         FirstAt(i) /\ (Garbage(LeftOf(i)) \/ Garbage(RightOf(i))) => ret = None

\* C8 as claimed: the equivalence, nothing on a bad half, and nothing when
\* the right half holds a second separator.
C8_SecondSeparatorFails ==
    pc = "parse_pair_ret" =>
      /\ PairIffHalvesParse
      /\ NothingOnBadHalf
      /\ \A i \in 1..Len(s) :
           FirstAt(i) /\ Contains(RightOf(i), separator) => ret = None

\* C8 as amended: a second separator in the right half gives nothing when
\* the separator is not a character of the numbers' own syntax (the sign
\* '-'); the rest as claimed.
C8_PairIffBothHalvesParse ==
    pc = "parse_pair_ret" =>
      /\ PairIffHalvesParse
      /\ NothingOnBadHalf
      /\ \A i \in 1..Len(s) :
           FirstAt(i) /\ Contains(RightOf(i), separator) /\ separator # "-"
             => ret = None

C8_Witness ==
    /\ pc = "parse_pair_ret"
    /\ s = << "1", "-", "-", "1" >> /\ separator = "-"
    /\ ret = Some(<< 1, 0 - 1 >>)

=============================================================================
